---- MODULE Spec2Model ----
(***************************************************************************)
(* Model of src/orchestration/simple-tracker.ts:                           *)
(*   SimpleAgentTracker    (getIdle, getBestForTask, updateStatus,         *)
(*                          register) over the children / task_graph       *)
(*                          tables of the store;                           *)
(*   SimpleFundingProtocol (fundChild, recallCredits, getBalance) over the *)
(*                          remote credits client;                         *)
(*   isTransferSuccessful  (classification of a remote status string).     *)
(*                                                                         *)
(* Strings that the code inspects character by character (the remote       *)
(* status) are sequences of one-character strings.  Numbers of cents are   *)
(* held in tenths of a cent, so that 250.7 is 2507 and Math.floor is an    *)
(* integer division.  An optional value is a sequence of length 0 or 1.    *)
(***************************************************************************)
EXTENDS Integers, Sequences, FiniteSets, TLC

VARIABLES
    children,     \* rows of the children table, in store order
    task_graph,   \* rows of the task_graph table (owned by the orchestrator)
    call,         \* the tracker/store operation performed by the last step
    balance,      \* the remote credits balance, in tenths of a cent
    inv,          \* per caller: the funding invocation in progress or last finished
    decision      \* per orchestrator decision: the agent selected, not yet assigned

vars == <<children, task_graph, call, balance, inv, decision>>

trackerVars == <<children, task_graph, call>>
fundingVars == <<balance, inv>>

----------------------------------------------------------------------------
(* Bounds of the model. *)

MaxChildren == 2
MaxTasks == 1

----------------------------------------------------------------------------
(* Input domains. *)

Addresses == {"", "0xA", "0xB"}

\* The agents register() is called with.
Agents ==
    { [address |-> "",    name |-> "anon",  role |-> "generalist", sandboxId |-> "sb0"],
      [address |-> "0xA", name |-> "alpha", role |-> "coder",      sandboxId |-> "sb1"],
      [address |-> "0xB", name |-> "beta",  role |-> "tester",     sandboxId |-> "sb2"] }

Roles == {"generalist", "coder"}

\* Status values passed to updateStatus (a string at the store boundary).
StatusValues == {"running", "healthy", "dead"}

\* Identifiers in the 26-character format of ulid(), in lexical order.
Ulids == << "01J0000000000000000000000A", "01J0000000000000000000000B",
            "01J0000000000000000000000C", "01J0000000000000000000000D" >>

\* Values new Date().toISOString() can produce.
Timestamps == {"2026-01-01T00:00:00.000Z"}

TaskStatuses == {"assigned", "running", "completed"}

\* assigned_to is nullable: <<>> is NULL, <<a>> is the address a.
TaskRows == [assigned_to : {<<>>} \cup {<<a>> : a \in Addresses}, status : TaskStatuses]

----------------------------------------------------------------------------
(* SimpleAgentTracker *)

IDLE_STATUSES == {"running", "healthy"}

\* Variant of assignedRows without the status condition of the query.
assignedRows_anyStatus(tg) ==
    { r.assigned_to[1] : r \in { t \in tg : t.assigned_to # <<>> } }

\* SELECT DISTINCT assigned_to ... WHERE assigned_to IS NOT NULL
\*   AND status IN ('assigned', 'running')
assignedRows(tg) ==
    { r.assigned_to[1] : r \in { t \in tg : t.assigned_to # <<>>
                                           /\ t.status \in {"assigned", "running"} } }

\* Variant of assignedAddresses that answers from a set cached when the
\* tracker was constructed, the task table being empty then.
assignedAddresses_cached(tg) == {}

\* new Set(assignedRows.map(row => row.address).filter(nonempty string))
assignedAddresses(tg) == { a \in assignedRows(tg) : a # "" }

\* SELECT ... COALESCE(role, 'generalist') AS role FROM children
\*   WHERE status IN ('running', 'healthy')
RECURSIVE selectChildren(_)
selectChildren(ch) ==
    IF ch = <<>> THEN <<>>
    ELSE LET c == Head(ch)
             row == [id |-> c.id, name |-> c.name, address |-> c.address,
                     status |-> c.status,
                     role |-> IF c.role = <<>> THEN "generalist" ELSE c.role[1]]
         IN  IF c.status \in {"running", "healthy"}
             THEN <<row>> \o selectChildren(Tail(ch))
             ELSE selectChildren(Tail(ch))

\* children.filter(...).map(...)
RECURSIVE filterIdle(_, _)
filterIdle(rows, assigned) ==
    IF rows = <<>> THEN <<>>
    ELSE LET child == Head(rows)
             out == [address |-> child.address, name |-> child.name,
                     role |-> child.role, status |-> child.status]
         IN  IF child.status \in IDLE_STATUSES /\ child.address \notin assigned
             THEN <<out>> \o filterIdle(Tail(rows), assigned)
             ELSE filterIdle(Tail(rows), assigned)

getIdle(ch, tg) == filterIdle(selectChildren(ch), assignedAddresses(tg))

\* Variant of getBestForTask that only considers idle agents of the role.
getBestForTask_byRole(ch, tg, role) ==
    LET idle == SelectSeq(getIdle(ch, tg), LAMBDA e : e.role = role)
    IN  IF Len(idle) = 0 THEN <<>>
        ELSE << [address |-> idle[1].address, name |-> idle[1].name] >>

getBestForTask(ch, tg, role) ==
    LET idle == getIdle(ch, tg)
    IN  IF Len(idle) = 0 THEN <<>>
        ELSE << [address |-> idle[1].address, name |-> idle[1].name] >>

\* db.getChildren(): every row of the children table.
getChildren(ch) == ch

\* Array.prototype.find: the first entry with the address, or none.
findChild(ch, address) ==
    LET hits == { i \in 1..Len(ch) : ch[i].address = address }
    IN  IF hits = {} THEN <<>>
        ELSE << ch[CHOOSE i \in hits : \A j \in hits : i <= j] >>

\* db.updateChildStatus(id, status): UPDATE children SET status WHERE id.
updateChildStatus(ch, id, status) ==
    [ i \in 1..Len(ch) |-> IF ch[i].id = id THEN [ch[i] EXCEPT !.status = status]
                           ELSE ch[i] ]

\* Variant of updateStatus that validates the transition: a dead agent
\* keeps its status.
updateStatus_validated(ch, address, status) ==
    LET child == findChild(getChildren(ch), address)
    IN  IF child = <<>> \/ child[1].status = "dead" THEN ch
        ELSE updateChildStatus(ch, child[1].id, status)

\* Variant of updateStatus without the early return: the update is keyed by
\* the identifier of the first row when no row has the address.
updateStatus_noGuard(ch, address, status) ==
    LET child == findChild(getChildren(ch), address)
    IN  IF ch = <<>> THEN ch
        ELSE updateChildStatus(ch, IF child = <<>> THEN ch[1].id ELSE child[1].id, status)

updateStatus(ch, address, status) ==
    LET child == findChild(getChildren(ch), address)
    IN  IF child = <<>> THEN ch
        ELSE updateChildStatus(ch, child[1].id, status)

\* ulid(): the values a call can return when the store holds ch.  The code
\* only compares identifiers for equality, so unused identifiers are
\* interchangeable: the call returns the first unused one or, on a
\* collision, one that is already stored.
ulid(ch) ==
    LET used == { ch[i].id : i \in 1..Len(ch) }
        free == { i \in 1..Len(Ulids) : Ulids[i] \notin used }
    IN  used \cup (IF free = {} THEN {}
                  ELSE { Ulids[CHOOSE i \in free : \A j \in free : i <= j] })

\* Variant of registerRecord that registers the agent as starting.
registerRecord_starting(agent, id, now) ==
    [ id |-> id,
      name |-> agent.name,
      address |-> agent.address,
      sandboxId |-> agent.sandboxId,
      genesisPrompt |-> <<"Role: ", agent.role>>,
      creatorMessage |-> "registered by orchestrator",
      fundedAmountCents |-> 0,
      status |-> "starting",
      createdAt |-> now,
      role |-> <<>> ]

\* Variant of registerRecord that starts the agent with the funded amount
\* of a default grant.
registerRecord_funded(agent, id, now) ==
    [ id |-> id,
      name |-> agent.name,
      address |-> agent.address,
      sandboxId |-> agent.sandboxId,
      genesisPrompt |-> <<"Role: ", agent.role>>,
      creatorMessage |-> "registered by orchestrator",
      fundedAmountCents |-> 100,
      status |-> "running",
      createdAt |-> now,
      role |-> <<>> ]

\* The record register() hands to db.insertChild.
registerRecord(agent, id, now) ==
    [ id |-> id,
      name |-> agent.name,
      address |-> agent.address,
      sandboxId |-> agent.sandboxId,
      genesisPrompt |-> <<"Role: ", agent.role>>,
      creatorMessage |-> "registered by orchestrator",
      fundedAmountCents |-> 0,
      status |-> "running",
      createdAt |-> now,
      role |-> <<>> ]

\* db.insertChild rejects a row whose identifier or address is already stored.
insertRejected(ch, rec) ==
    \E i \in 1..Len(ch) : ch[i].id = rec.id \/ ch[i].address = rec.address

insertChild(ch, rec) == Append(ch, rec)

----------------------------------------------------------------------------
(* Tracker actions.  Each one records the operation, its arguments and its *)
(* outcome in call.                                                        *)

NoCall == [op |-> "none", arg |-> <<>>, value |-> <<>>, raised |-> FALSE]

GetIdle ==
    /\ call' = [op |-> "getIdle", arg |-> <<>>,
                value |-> getIdle(children, task_graph), raised |-> FALSE]
    /\ UNCHANGED <<children, task_graph, fundingVars, decision>>

GetBestForTask ==
    \E role \in Roles :
        /\ call' = [op |-> "getBestForTask", arg |-> <<role>>,
                    value |-> getBestForTask(children, task_graph, role),
                    raised |-> FALSE]
        /\ UNCHANGED <<children, task_graph, fundingVars, decision>>

UpdateStatus ==
    \E address \in Addresses, status \in StatusValues :
        /\ children' = updateStatus(children, address, status)
        /\ call' = [op |-> "updateStatus", arg |-> <<address, status>>,
                    value |-> <<>>, raised |-> FALSE]
        /\ UNCHANGED <<task_graph, fundingVars, decision>>

Register ==
    \E agent \in Agents, id \in ulid(children), now \in Timestamps :
        LET rec == registerRecord(agent, id, now)
        IN  /\ Len(children) < MaxChildren
            /\ IF insertRejected(children, rec)
               THEN /\ children' = children
                    /\ call' = [op |-> "register", arg |-> <<agent>>,
                                value |-> <<>>, raised |-> TRUE]
               ELSE /\ children' = insertChild(children, rec)
                    /\ call' = [op |-> "register", arg |-> <<agent>>,
                                value |-> <<>>, raised |-> FALSE]
            /\ UNCHANGED <<task_graph, fundingVars, decision>>

\* The orchestrator writes the task graph outside this core.
TaskInsert ==
    \E row \in TaskRows :
        /\ Cardinality(task_graph) < MaxTasks
        /\ row \notin task_graph
        /\ task_graph' = task_graph \cup {row}
        /\ call' = [op |-> "taskInsert", arg |-> <<>>, value |-> <<>>, raised |-> FALSE]
        /\ UNCHANGED <<children, fundingVars, decision>>

TaskUpdate ==
    \E row \in task_graph, status \in TaskStatuses :
        /\ status # row.status
        /\ task_graph' = (task_graph \ {row}) \cup {[row EXCEPT !.status = status]}
        /\ call' = [op |-> "taskUpdate", arg |-> <<>>, value |-> <<>>, raised |-> FALSE]
        /\ UNCHANGED <<children, fundingVars, decision>>

TaskDelete ==
    \E row \in task_graph :
        /\ task_graph' = task_graph \ {row}
        /\ call' = [op |-> "taskDelete", arg |-> <<>>, value |-> <<>>, raised |-> FALSE]
        /\ UNCHANGED <<children, fundingVars, decision>>

\* Concurrent orchestrator decisions: each one selects an agent and writes
\* the assignment to the task table in a later step.
Orchestrators == {"o1", "o2"}

\* Variant of SelectForTask with a reservation: agents held by another
\* pending decision are skipped.
SelectForTask_reserving(o) ==
    \E role \in Roles :
        LET held == { decision[x][1].address :
                          x \in { y \in Orchestrators : decision[y] # <<>> } }
            idle == SelectSeq(getIdle(children, task_graph),
                              LAMBDA e : e.address \notin held)
            best == IF Len(idle) = 0 THEN <<>>
                    ELSE << [address |-> idle[1].address, name |-> idle[1].name] >>
        IN  /\ decision[o] = <<>>
            /\ decision' = [decision EXCEPT ![o] = best]
            /\ call' = [op |-> "getBestForTask", arg |-> <<role>>,
                        value |-> best, raised |-> FALSE]
            /\ UNCHANGED <<children, task_graph, fundingVars>>

\* An orchestrator decision calls getBestForTask and keeps the result.
SelectForTask(o) ==
    \E role \in Roles :
        LET best == getBestForTask(children, task_graph, role)
        IN  /\ decision[o] = <<>>
            /\ decision' = [decision EXCEPT ![o] = best]
            /\ call' = [op |-> "getBestForTask", arg |-> <<role>>,
                        value |-> best, raised |-> FALSE]
            /\ UNCHANGED <<children, task_graph, fundingVars>>

\* The orchestrator writes the assignment of the selected agent to the task
\* table, outside this core.
AssignTask(o) ==
    LET row == [assigned_to |-> <<decision[o][1].address>>, status |-> "assigned"]
    IN  /\ decision[o] # <<>>
        /\ row \in task_graph \/ Cardinality(task_graph) < MaxTasks
        /\ task_graph' = task_graph \cup {row}
        /\ decision' = [decision EXCEPT ![o] = <<>>]
        /\ call' = [op |-> "taskInsert", arg |-> <<>>, value |-> <<>>, raised |-> FALSE]
        /\ UNCHANGED <<children, fundingVars>>

DecisionNext ==
    \/ Register
    \/ \E o \in Orchestrators : SelectForTask(o)
    \/ \E o \in Orchestrators : AssignTask(o)
    \/ TaskUpdate
    \/ TaskDelete

TrackerNext ==
    \/ GetIdle
    \/ GetBestForTask
    \/ UpdateStatus
    \/ Register
    \/ TaskInsert
    \/ TaskUpdate
    \/ TaskDelete

----------------------------------------------------------------------------
(* SimpleFundingProtocol *)

\* Callers of the funding protocol (each awaits its own promise).
Callers == {"c1", "c2"}

\* Child addresses the funding operations are called with.
ChildAddresses == {"0xA", "0xB"}

\* amountCents arguments of fundChild, in tenths: -5, 0, 0.5, 1500.
Amounts == {-50, 0, 5, 15000}

\* Values of the remote balance, in tenths: -0.3, 0, 0.9, 250.7.
Balances == {-3, 0, 9, 2507}

\* amountCents of a remote transfer result, when present (tenths): 0, 100.
RemoteAmounts == {0, 1000}

\* this.identity
identity == [address |-> "0xORCHESTRATOR"]

\* Status strings a remote transfer result can carry.
S_completed == <<"c", "o", "m", "p", "l", "e", "t", "e", "d">>
S_rejected == <<"R", "e", "j", "e", "c", "t", "e", "d", ":", " ", "i", "n", "s", "u", "f", "f", "i", "c", "i", "e", "n", "t", " ", "f", "u", "n", "d", "s">>
S_failedPadded == <<" ", "F", "A", "I", "L", "E", "D", "\n">>
S_error == <<"T", "r", "a", "n", "s", "f", "e", "r", " ", "E", "r", "r", "o", "r">>
S_empty == <<>>
S_blank == <<" ", "\t">>
S_okPadded == <<" ", "o", "k", " ">>

TransferStatuses ==
    {S_completed, S_rejected, S_failedPadded, S_error, S_empty, S_blank, S_okPadded}

\* Math.floor on a number held in tenths.
floor(x) == (x \div 10) * 10

max(a, b) == IF a >= b THEN a ELSE b

\* Variant of transferAmount with Math.round in place of Math.floor.
transferAmount_round(amountCents) == max(0, floor(amountCents + 5))

\* fundChild: Math.max(0, Math.floor(amountCents))
transferAmount(amountCents) == max(0, floor(amountCents))

\* Variant of recallAmount without the clamp to zero.
recallAmount_noClamp(bal) == floor(bal)

\* recallCredits: Math.max(0, Math.floor(balance))
recallAmount(bal) == max(0, floor(bal))

WhiteSpace == {" ", "\t", "\n"}

RECURSIVE trimStart(_)
trimStart(s) ==
    IF s # <<>> /\ Head(s) \in WhiteSpace THEN trimStart(Tail(s)) ELSE s

RECURSIVE trimEnd(_)
trimEnd(s) ==
    IF s # <<>> /\ s[Len(s)] \in WhiteSpace THEN trimEnd(SubSeq(s, 1, Len(s) - 1)) ELSE s

\* String.prototype.trim
trim(s) == trimEnd(trimStart(s))

UpperCase == <<"A", "B", "C", "D", "E", "F", "G", "H", "I", "J", "K", "L", "M", "N", "O", "P", "Q", "R", "S", "T", "U", "V", "W", "X", "Y", "Z">>
LowerCase == <<"a", "b", "c", "d", "e", "f", "g", "h", "i", "j", "k", "l", "m", "n", "o", "p", "q", "r", "s", "t", "u", "v", "w", "x", "y", "z">>

toLowerChar(c) ==
    IF \E i \in 1..Len(UpperCase) : UpperCase[i] = c
    THEN LowerCase[CHOOSE i \in 1..Len(UpperCase) : UpperCase[i] = c]
    ELSE c

\* String.prototype.toLowerCase
toLowerCase(s) == [ i \in 1..Len(s) |-> toLowerChar(s[i]) ]

\* String.prototype.includes
includes(s, pat) ==
    \E i \in 1..(Len(s) - Len(pat) + 1) : SubSeq(s, i, i + Len(pat) - 1) = pat

W_fail == <<"f", "a", "i", "l">>
W_error == <<"e", "r", "r", "o", "r">>
W_reject == <<"r", "e", "j", "e", "c", "t">>

\* Variant of isTransferSuccessful without toLowerCase.
isTransferSuccessful_caseSensitive(status) ==
    LET normalized == trim(status)
    IN  /\ Len(normalized) > 0
        /\ ~includes(normalized, W_fail)
        /\ ~includes(normalized, W_error)
        /\ ~includes(normalized, W_reject)

isTransferSuccessful(status) ==
    LET normalized == toLowerCase(trim(status))
    IN  /\ Len(normalized) > 0
        /\ ~includes(normalized, W_fail)
        /\ ~includes(normalized, W_error)
        /\ ~includes(normalized, W_reject)

\* Variant of coalesce with || in place of ??: a reported 0 falls back too.
coalesce_falsy(opt, fallback) == IF opt = <<>> \/ opt[1] = 0 THEN fallback ELSE opt[1]

\* result.amountCents ?? amountCents
coalesce(opt, fallback) == IF opt = <<>> THEN fallback ELSE opt[1]

\* fundChild: the value returned for a transfer result.
fundChildResult(result) ==
    [success |-> isTransferSuccessful(result.status), amountCents |-> <<>>]

\* recallCredits: the value returned for a transfer result.
recallCreditsResult(result, amountCents) ==
    [success |-> isTransferSuccessful(result.status),
     amountCents |-> <<coalesce(result.amountCents, amountCents)>>]

FundMemo == <<"Task funding from orchestrator">>
RecallMemo(childAddress) == <<"Recall credits from ", childAddress>>

\* A caller with no invocation yet.
NoInvocation ==
    [ op |-> "none", pc |-> "idle", childAddress |-> "", amountArg |-> <<>>,
      balanceRead |-> <<>>, calls |-> <<>>, resp |-> <<>>, raisedBy |-> "none",
      outcome |-> "pending", ret |-> <<>> ]

CanCall(p) == inv[p].pc \in {"idle", "done"}

\* fundChild up to its first await (or its return when the amount is zero).
FundChildCall(p) ==
    \E childAddress \in ChildAddresses, amountCents \in Amounts :
        LET amount == transferAmount(amountCents)
            start == [NoInvocation EXCEPT !.op = "fundChild",
                                          !.childAddress = childAddress,
                                          !.amountArg = <<amountCents>>]
        IN  /\ CanCall(p)
            /\ inv' = [inv EXCEPT ![p] =
                   IF amount = 0
                   THEN [start EXCEPT !.pc = "done", !.outcome = "returned",
                                      !.ret = <<[success |-> TRUE, amountCents |-> <<>>]>>]
                   ELSE [start EXCEPT !.pc = "awaitTransfer",
                                      !.calls = <<[to |-> childAddress, amount |-> amount,
                                                   memo |-> FundMemo]>>]]
            /\ call' = NoCall
            /\ UNCHANGED <<children, task_graph, balance, decision>>

\* Variant of FundTransferResolved that adds a successful transfer to the
\* funded amount of the child record with the address.
FundTransferResolved_accumulate(p) ==
    \E status \in TransferStatuses, amt \in {<<>>} \cup {<<a>> : a \in RemoteAmounts} :
        LET result == [status |-> status, amountCents |-> amt]
            funded == fundChildResult(result).success
        IN  /\ inv[p].op = "fundChild"
            /\ inv[p].pc = "awaitTransfer"
            /\ inv' = [inv EXCEPT ![p].pc = "done",
                                  ![p].resp = <<result>>,
                                  ![p].outcome = "returned",
                                  ![p].ret = <<fundChildResult(result)>>]
            /\ children' = [ i \in 1..Len(children) |->
                   IF funded /\ children[i].address = inv[p].childAddress
                   THEN [children[i] EXCEPT !.fundedAmountCents =
                                                @ + inv[p].calls[1].amount \div 10]
                   ELSE children[i] ]
            /\ call' = NoCall
            /\ UNCHANGED <<task_graph, balance, decision>>

\* fundChild: transferCredits resolves with a result.
FundTransferResolved(p) ==
    \E status \in TransferStatuses, amt \in {<<>>} \cup {<<a>> : a \in RemoteAmounts} :
        LET result == [status |-> status, amountCents |-> amt]
        IN  /\ inv[p].op = "fundChild"
            /\ inv[p].pc = "awaitTransfer"
            /\ inv' = [inv EXCEPT ![p].pc = "done",
                                  ![p].resp = <<result>>,
                                  ![p].outcome = "returned",
                                  ![p].ret = <<fundChildResult(result)>>]
            /\ call' = NoCall
            /\ UNCHANGED <<children, task_graph, balance, decision>>

\* Variant of FundTransferRaised whose catch block issues the transfer once
\* more before giving up.
FundTransferRaised_retry(p) ==
    /\ inv[p].op = "fundChild"
    /\ inv[p].pc = "awaitTransfer"
    /\ inv' = [inv EXCEPT ![p] =
           IF Len(@.calls) < 2
           THEN [@ EXCEPT !.calls = Append(@, inv[p].calls[1])]
           ELSE [@ EXCEPT !.pc = "done", !.raisedBy = "transferCredits",
                          !.outcome = "returned",
                          !.ret = <<[success |-> FALSE, amountCents |-> <<>>]>>]]
    /\ call' = NoCall
    /\ UNCHANGED <<children, task_graph, balance, decision>>

\* fundChild: transferCredits raises; the catch block returns.
FundTransferRaised(p) ==
    /\ inv[p].op = "fundChild"
    /\ inv[p].pc = "awaitTransfer"
    /\ inv' = [inv EXCEPT ![p].pc = "done",
                          ![p].raisedBy = "transferCredits",
                          ![p].outcome = "returned",
                          ![p].ret = <<[success |-> FALSE, amountCents |-> <<>>]>>]
    /\ call' = NoCall
    /\ UNCHANGED <<children, task_graph, balance, decision>>

\* Variant of getBalance that keeps a balance per child: only the first
\* child address holds the remote balance.
getBalance_perChild(childAddress, remote) == IF childAddress = "0xA" THEN remote ELSE 0

\* getBalance(_childAddress): the value getCreditsBalance() resolves with
\* when the remote balance is remote.
getBalance(childAddress, remote) == remote

\* recallCredits up to its first await: getBalance calls getCreditsBalance.
RecallCreditsCall(p) ==
    \E childAddress \in ChildAddresses :
        /\ CanCall(p)
        /\ inv' = [inv EXCEPT ![p] =
               [NoInvocation EXCEPT !.op = "recallCredits",
                                    !.pc = "awaitBalance",
                                    !.childAddress = childAddress]]
        /\ call' = NoCall
        /\ UNCHANGED <<children, task_graph, balance, decision>>

\* recallCredits: getCreditsBalance resolves; the code runs up to the
\* transferCredits call (or to its return when the amount is zero).
RecallBalanceResolved(p) ==
    LET bal == getBalance(inv[p].childAddress, balance)
        amountCents == recallAmount(bal)
        cur == [inv[p] EXCEPT !.balanceRead = <<bal>>]
    IN  /\ inv[p].op = "recallCredits"
        /\ inv[p].pc = "awaitBalance"
        /\ inv' = [inv EXCEPT ![p] =
               IF amountCents = 0
               THEN [cur EXCEPT !.pc = "done", !.outcome = "returned",
                                !.ret = <<[success |-> TRUE, amountCents |-> <<0>>]>>]
               ELSE [cur EXCEPT !.pc = "awaitTransfer",
                                !.calls = <<[to |-> identity.address, amount |-> amountCents,
                                             memo |-> RecallMemo(cur.childAddress)]>>]]
        /\ call' = NoCall
        /\ UNCHANGED <<children, task_graph, balance, decision>>

\* recallCredits: getCreditsBalance raises outside any try block; the
\* promise of recallCredits rejects.
RecallBalanceRaised(p) ==
    /\ inv[p].op = "recallCredits"
    /\ inv[p].pc = "awaitBalance"
    /\ inv' = [inv EXCEPT ![p].pc = "done",
                          ![p].raisedBy = "getCreditsBalance",
                          ![p].outcome = "threw"]
    /\ call' = NoCall
    /\ UNCHANGED <<children, task_graph, balance, decision>>

\* Variant of RecallTransferResolved that compares the balance again when
\* the transfer resolves and requests the new amount when it has changed.
RecallTransferResolved_recheck(p) ==
    \E status \in TransferStatuses, amt \in {<<>>} \cup {<<a>> : a \in RemoteAmounts} :
        LET result == [status |-> status, amountCents |-> amt]
        IN  /\ inv[p].op = "recallCredits"
            /\ inv[p].pc = "awaitTransfer"
            /\ inv' = [inv EXCEPT ![p] =
                   IF <<balance>> # @.balanceRead /\ Len(@.calls) < 2
                   THEN [@ EXCEPT !.balanceRead = <<balance>>,
                                  !.calls = Append(@, [to |-> identity.address,
                                                       amount |-> recallAmount(balance),
                                                       memo |-> RecallMemo(inv[p].childAddress)])]
                   ELSE [@ EXCEPT !.pc = "done", !.resp = <<result>>,
                                  !.outcome = "returned",
                                  !.ret = <<recallCreditsResult(result,
                                                inv[p].calls[1].amount)>>]]
            /\ call' = NoCall
            /\ UNCHANGED <<children, task_graph, balance, decision>>

\* recallCredits: transferCredits resolves with a result.
RecallTransferResolved(p) ==
    \E status \in TransferStatuses, amt \in {<<>>} \cup {<<a>> : a \in RemoteAmounts} :
        LET result == [status |-> status, amountCents |-> amt]
        IN  /\ inv[p].op = "recallCredits"
            /\ inv[p].pc = "awaitTransfer"
            /\ inv' = [inv EXCEPT ![p].pc = "done",
                                  ![p].resp = <<result>>,
                                  ![p].outcome = "returned",
                                  ![p].ret = <<recallCreditsResult(result,
                                                   inv[p].calls[1].amount)>>]
            /\ call' = NoCall
            /\ UNCHANGED <<children, task_graph, balance, decision>>

\* recallCredits: transferCredits raises; the catch block returns.
RecallTransferRaised(p) ==
    /\ inv[p].op = "recallCredits"
    /\ inv[p].pc = "awaitTransfer"
    /\ inv' = [inv EXCEPT ![p].pc = "done",
                          ![p].raisedBy = "transferCredits",
                          ![p].outcome = "returned",
                          ![p].ret = <<[success |-> FALSE, amountCents |-> <<0>>]>>]
    /\ call' = NoCall
    /\ UNCHANGED <<children, task_graph, balance, decision>>

\* The remote ledger changes the balance on its own.
BalanceChange ==
    \E b \in Balances :
        /\ b # balance
        /\ balance' = b
        /\ call' = NoCall
        /\ UNCHANGED <<children, task_graph, inv, decision>>

\* The remote ledger receives credits: the balance becomes 250.7.
BalanceCredited ==
    /\ balance # 2507
    /\ balance' = 2507
    /\ call' = NoCall
    /\ UNCHANGED <<children, task_graph, inv, decision>>

FundingNext ==
    \/ \E p \in Callers : FundChildCall(p)
    \/ \E p \in Callers : FundTransferResolved(p)
    \/ \E p \in Callers : FundTransferRaised(p)
    \/ \E p \in Callers : RecallCreditsCall(p)
    \/ \E p \in Callers : RecallBalanceResolved(p)
    \/ \E p \in Callers : RecallBalanceRaised(p)
    \/ \E p \in Callers : RecallTransferResolved(p)
    \/ \E p \in Callers : RecallTransferRaised(p)
    \/ BalanceChange

----------------------------------------------------------------------------

Init ==
    /\ children = <<>>
    /\ task_graph = {}
    /\ call = NoCall
    /\ balance = 0
    /\ inv = [p \in Callers |-> NoInvocation]
    /\ decision = [o \in Orchestrators |-> <<>>]

Next == TrackerNext \/ FundingNext

Spec == Init /\ [][Next]_vars

TrackerSpec == Init /\ [][TrackerNext]_vars

FundingSpec == Init /\ [][FundingNext]_vars

DecisionSpec == Init /\ [][DecisionNext]_vars

\* One orchestrator that registers agents, sets their status, funds them
\* and recalls their credits.
CoreNext ==
    \/ Register
    \/ UpdateStatus
    \/ FundChildCall("c1")
    \/ FundTransferResolved("c1")
    \/ FundTransferRaised("c1")
    \/ RecallCreditsCall("c1")
    \/ RecallBalanceResolved("c1")
    \/ RecallBalanceRaised("c1")
    \/ RecallTransferResolved("c1")
    \/ RecallTransferRaised("c1")
    \/ BalanceCredited

CoreSpec == Init /\ [][CoreNext]_vars

----------------------------------------------------------------------------
(* Properties of the tracker. *)

\* Task rows that make an address busy according to the task table.
IsTarget(address, tg) ==
    \E t \in tg : t.assigned_to = <<address>> /\ t.status \in {"assigned", "running"}

\* The agent record c appears in the getIdle result v.
Appears(c, v) ==
    \E k \in 1..Len(v) : v[k].address = c.address /\ v[k].name = c.name

\* Every element of the getIdle result v is an agent record of the store.
FromStore(v) ==
    \A k \in 1..Len(v) : \E i \in 1..Len(children) :
        children[i].address = v[k].address /\ children[i].name = v[k].name

\* C1 (as stated): after getIdle, an agent appears in the result if and only
\* if its status is running or healthy and its address is not the assignment
\* target of any task whose status is assigned or running.
C1_AsStated ==
    call.op = "getIdle" =>
        /\ FromStore(call.value)
        /\ \A i \in 1..Len(children) :
               Appears(children[i], call.value)
                   <=> /\ children[i].status \in {"running", "healthy"}
                       /\ ~IsTarget(children[i].address, task_graph)

\* C1 (amended): after getIdle, an agent appears in the result if and only if
\* its status is running or healthy and its address is not a non-empty
\* assignment target of any task whose status is assigned or running; an
\* empty-string assignment target makes no agent busy.
C1_IdleIff ==
    call.op = "getIdle" =>
        /\ FromStore(call.value)
        /\ \A i \in 1..Len(children) :
               Appears(children[i], call.value)
                   <=> /\ children[i].status \in {"running", "healthy"}
                       /\ ~(children[i].address # ""
                            /\ IsTarget(children[i].address, task_graph))

\* getIdle ran on a store where one agent is idle and another is busy.
C1_Witness ==
    /\ call.op = "getIdle"
    /\ Len(children) = 2
    /\ Len(call.value) = 1
    /\ \E i \in 1..Len(children) :
           /\ children[i].status \in {"running", "healthy"}
           /\ children[i].address # ""
           /\ IsTarget(children[i].address, task_graph)

\* C2: getBestForTask returns absent if and only if getIdle on the same store
\* is empty; otherwise it returns the address and the name of the first
\* element of getIdle, whatever role was passed.
C2_SelectFirstIdle ==
    call.op = "getBestForTask" =>
        LET idle == getIdle(children, task_graph)
        IN  /\ (call.value = <<>>) <=> (Len(idle) = 0)
            /\ Len(idle) > 0 =>
                   /\ call.value[1].address = idle[1].address
                   /\ call.value[1].name = idle[1].name

\* getBestForTask picked among two idle agents, for a role the first one
\* does not have.
C2_Witness ==
    /\ call.op = "getBestForTask"
    /\ call.value # <<>>
    /\ LET idle == getIdle(children, task_graph)
       IN  /\ Len(idle) = 2
           /\ idle[1].role # call.arg[1]
           /\ call.value[1].address = idle[1].address

HasAddress(ch, address) == \E i \in 1..Len(ch) : ch[i].address = address

\* C3: updateStatus with an address that no agent record has leaves every
\* agent record unchanged and does not raise, for any status value.
C3_UnknownAddressNoOp ==
    [][ (call'.op = "updateStatus" /\ ~HasAddress(children, call'.arg[1]))
            => (children' = children /\ task_graph' = task_graph /\ ~call'.raised) ]_vars

\* updateStatus ran with an address that is not in a non-empty store.
C3_Witness ==
    /\ call.op = "updateStatus"
    /\ Len(children) > 0
    /\ ~HasAddress(children, call.arg[1])

\* C4: every successful register adds exactly one agent record, whose status
\* is running, whose fundedAmountCents is 0, and whose identifier is non-empty
\* and differs from the identifier of every record already in the store.
C4_RegisterFresh ==
    [][ (call'.op = "register" /\ ~call'.raised) =>
            /\ Len(children') = Len(children) + 1
            /\ SubSeq(children', 1, Len(children)) = children
            /\ LET new == children'[Len(children')]
               IN  /\ new.status = "running"
                   /\ new.fundedAmountCents = 0
                   /\ new.id # ""
                   /\ new.address = call'.arg[1].address
                   /\ \A i \in 1..Len(children) : children[i].id # new.id ]_vars

\* A second agent was registered after the first one changed status.
C4_Witness ==
    /\ call.op = "register"
    /\ ~call.raised
    /\ Len(children) = 2
    /\ children[1].status = "dead"
    /\ children[2].status = "running"

----------------------------------------------------------------------------
(* Properties of the funding protocol. *)

Finished(p) == inv[p].pc = "done"

C6_RecallNeverThrows ==
    \A p \in Callers :
        inv[p].op = "recallCredits" =>
            /\ inv[p].outcome # "threw"
            /\ inv[p].raisedBy = "getCreditsBalance" =>
                   /\ inv[p].calls = <<>>
                   /\ Finished(p) => (inv[p].ret # <<>> /\ ~inv[p].ret[1].success)

\* C7: for every address and every requested amount whose floor is zero or
\* negative, fundChild returns {success: true} and never invokes
\* transferCredits.
C7_FundNothing ==
    \A p \in Callers :
        (inv[p].op = "fundChild" /\ inv[p].amountArg[1] < 10) =>
            /\ Finished(p)
            /\ inv[p].outcome = "returned"
            /\ inv[p].ret = <<[success |-> TRUE, amountCents |-> <<>>]>>
            /\ inv[p].calls = <<>>
            /\ inv[p].resp = <<>>

\* fundChild was called with 0.5 and with -5.
C7_Witness ==
    \E p, q \in Callers :
        /\ inv[p].op = "fundChild" /\ inv[p].amountArg = <<5>> /\ Finished(p)
        /\ inv[q].op = "fundChild" /\ inv[q].amountArg = <<-50>> /\ Finished(q)

\* The classification of a status string as the claim words it: blank, or
\* one of the three words occurs in it when letter case is ignored.
ClaimedFailure(st) ==
    \/ \A i \in 1..Len(st) : st[i] \in WhiteSpace
    \/ \E w \in {W_fail, W_error, W_reject} :
           \E i \in 1..(Len(st) - Len(w) + 1) :
               \A k \in 1..Len(w) : toLowerChar(st[i + k - 1]) = w[k]

\* C8: for every status string returned by a transfer of a positive amount,
\* the success flag of fundChild and of recallCredits is false exactly when
\* the string, trimmed and lowercased, is empty or contains "fail", "error"
\* or "reject", and true otherwise.
C8_StatusClassification ==
    \A p \in Callers :
        (Finished(p) /\ inv[p].resp # <<>>) =>
            /\ inv[p].outcome = "returned"
            /\ inv[p].ret[1].success = ~ClaimedFailure(inv[p].resp[1].status)

\* fundChild(addr, 1500) got "Rejected: insufficient funds" and reported
\* failure while a recallCredits got "completed" and reported success.
C8_Witness ==
    \E p, q \in Callers :
        /\ inv[p].op = "fundChild" /\ inv[p].amountArg = <<15000>> /\ Finished(p)
        /\ inv[p].resp # <<>> /\ inv[p].resp[1].status = S_rejected
        /\ inv[p].ret[1].success = FALSE
        /\ inv[q].op = "recallCredits" /\ Finished(q)
        /\ inv[q].resp # <<>> /\ inv[q].resp[1].status = S_completed
        /\ inv[q].ret[1].success = TRUE

\* C9: recallCredits whose balance query returns a value whose floor is zero
\* or negative returns {success: true, amountCents: 0} and never invokes
\* transferCredits.
C9_RecallNothing ==
    \A p \in Callers :
        (inv[p].op = "recallCredits" /\ inv[p].balanceRead # <<>>
                                     /\ inv[p].balanceRead[1] < 10) =>
            /\ Finished(p)
            /\ inv[p].outcome = "returned"
            /\ inv[p].ret = <<[success |-> TRUE, amountCents |-> <<0>>]>>
            /\ inv[p].calls = <<>>
            /\ inv[p].resp = <<>>

\* recallCredits read the balance -0.3, and another one the balance 0.9.
C9_Witness ==
    \E p, q \in Callers :
        /\ inv[p].op = "recallCredits" /\ inv[p].balanceRead = <<-3>>
        /\ inv[q].op = "recallCredits" /\ inv[q].balanceRead = <<9>>

\* n is x rounded down to a whole number of cents.
RoundedDown(n, x) == n % 10 = 0 /\ n <= x /\ x < n + 10

\* C10: when the balance read by recallCredits has a positive floor,
\* recallCredits issues a transfer to the orchestrator's own identity address
\* for the balance rounded down to an integer; when that transfer succeeds,
\* the returned amountCents is the remote-reported amountCents if the result
\* carries one, and the rounded-down balance otherwise.
C10_RecallTransfer ==
    \A p \in Callers :
        (inv[p].op = "recallCredits" /\ inv[p].balanceRead # <<>>
                                     /\ inv[p].balanceRead[1] >= 10) =>
            /\ Len(inv[p].calls) = 1
            /\ inv[p].calls[1].to = identity.address
            /\ RoundedDown(inv[p].calls[1].amount, inv[p].balanceRead[1])
            /\ (Finished(p) /\ inv[p].resp # <<>> /\ inv[p].ret[1].success) =>
                   inv[p].ret[1].amountCents =
                       IF inv[p].resp[1].amountCents # <<>>
                       THEN inv[p].resp[1].amountCents
                       ELSE <<inv[p].calls[1].amount>>

\* A recall of the balance 250.7 requested 250 and reported the remote
\* amount 0; another one got no remote amount and reported 250.
C10_Witness ==
    \E p, q \in Callers :
        /\ inv[p].op = "recallCredits" /\ inv[p].balanceRead = <<2507>>
        /\ inv[p].calls[1].amount = 2500
        /\ Finished(p) /\ inv[p].resp # <<>> /\ inv[p].ret[1].success
        /\ inv[p].resp[1].amountCents = <<0>> /\ inv[p].ret[1].amountCents = <<0>>
        /\ inv[q].op = "recallCredits" /\ inv[q].balanceRead = <<2507>>
        /\ Finished(q) /\ inv[q].resp # <<>> /\ inv[q].ret[1].success
        /\ inv[q].resp[1].amountCents = <<>> /\ inv[q].ret[1].amountCents = <<2500>>

\* C11: fundChild with a requested amount whose floor is positive issues
\* exactly one transferCredits call, to the given child address, for the
\* floored amount and with the fixed funding memo; there is no second call
\* while the call is pending nor after it returned a success status, returned
\* a failure status, or raised.
C11_FundOneTransfer ==
    \A p \in Callers :
        (inv[p].op = "fundChild" /\ inv[p].amountArg[1] >= 10) =>
            /\ Len(inv[p].calls) = 1
            /\ inv[p].calls[1].to = inv[p].childAddress
            /\ RoundedDown(inv[p].calls[1].amount, inv[p].amountArg[1])
            /\ inv[p].calls[1].memo = <<"Task funding from orchestrator">>
            /\ inv[p].pc \in {"awaitTransfer", "done"}
            /\ Finished(p) => inv[p].outcome = "returned"

\* One fundChild(addr, 1500) ended after its transfer raised and another one
\* after its transfer returned a failure status.
C11_Witness ==
    \E p, q \in Callers :
        /\ inv[p].op = "fundChild" /\ inv[p].amountArg = <<15000>> /\ Finished(p)
        /\ inv[p].raisedBy = "transferCredits" /\ Len(inv[p].calls) = 1
        /\ inv[q].op = "fundChild" /\ inv[q].amountArg = <<15000>> /\ Finished(q)
        /\ inv[q].resp # <<>> /\ ~inv[q].ret[1].success /\ Len(inv[q].calls) = 1

\* C12: updateStatus on an address held by an agent record sets that
\* record's status to the given value whatever its previous status was, and
\* leaves unchanged every other field of that record, every agent record
\* with a different address, and all task-assignment records.
C12_SetStatusFrame ==
    [][ (call'.op = "updateStatus" /\ HasAddress(children, call'.arg[1])) =>
            /\ ~call'.raised
            /\ task_graph' = task_graph
            /\ Len(children') = Len(children)
            /\ \A i \in 1..Len(children) :
                   children'[i] =
                       IF children[i].address = call'.arg[1]
                       THEN [children[i] EXCEPT !.status = call'.arg[2]]
                       ELSE children[i] ]_vars

\* updateStatus revived the second of two agents while the first one stayed
\* dead and a task row was present.
C12_Witness ==
    /\ call.op = "updateStatus"
    /\ Len(children) = 2
    /\ call.arg = <<children[2].address, "healthy">>
    /\ children[2].status = "healthy"
    /\ children[1].status = "dead"
    /\ task_graph # {}

\* C13: two concurrent orchestrator decisions can double-book an agent.  A
\* getBestForTask call reserves nothing: it leaves the store and the other
\* pending decisions as they are and returns the first idle agent of the
\* store even when another decision, not yet written to the task table,
\* holds that same agent.
C13_NoReservation ==
    [][ \A o \in Orchestrators :
            (decision[o] = <<>> /\ decision'[o] # <<>>) =>
                /\ children' = children
                /\ task_graph' = task_graph
                /\ \A x \in Orchestrators \ {o} : decision'[x] = decision[x]
                /\ LET idle == getIdle(children, task_graph)
                   IN  /\ Len(idle) > 0
                       /\ decision'[o][1].address = idle[1].address ]_vars

\* Both decisions hold the same agent address and neither assignment has
\* been written to the task table.
C13_Witness ==
    /\ decision["o1"] # <<>>
    /\ decision["o2"] # <<>>
    /\ decision["o1"][1].address = decision["o2"][1].address
    /\ ~IsTarget(decision["o1"][1].address, task_graph)
    /\ call.op = "getBestForTask"

\* C14: in recallCredits the amount sent to transferCredits is fixed by the
\* balance observed at the balance read: from the transfer request until the
\* return, whatever happens to the remote balance, the request is neither
\* changed nor repeated and the balance is not read again, so a requested
\* amount larger than the balance at transfer time is reachable.
C14_AmountFixedAtRead ==
    [][ \A p \in Callers :
            (inv[p].op = "recallCredits" /\ inv[p].pc = "awaitTransfer") =>
                /\ Len(inv[p].calls) = 1
                /\ RoundedDown(inv[p].calls[1].amount, inv[p].balanceRead[1])
                /\ inv'[p].pc \in {"awaitTransfer", "done"}
                /\ inv'[p].calls = inv[p].calls
                /\ inv'[p].balanceRead = inv[p].balanceRead ]_vars

\* The transfer of a recall that requested 250 is pending while the remote
\* balance is 0, as a second recall by another caller has read it.
C14_Witness ==
    \E p, q \in Callers :
        /\ p # q
        /\ inv[p].op = "recallCredits" /\ inv[p].pc = "awaitTransfer"
        /\ inv[p].calls[1].amount = 2500
        /\ balance = 0
        /\ inv[q].op = "recallCredits" /\ Finished(q) /\ inv[q].balanceRead = <<0>>

\* C15: getBalance does not depend on its address argument: what a
\* recallCredits reads is the remote balance whatever child address it was
\* called with, so two recalls for different addresses that read the same
\* remote state request the same amount to the same destination.
C15_BalanceIgnoresAddress ==
    [][ /\ \A p \in Callers :
               (inv[p].op = "recallCredits" /\ inv[p].pc = "awaitBalance"
                                            /\ inv'[p].balanceRead # <<>>) =>
                   /\ inv'[p].balanceRead = <<balance>>
                   /\ (inv'[p].calls = <<>>) <=> (balance < 10)
                   /\ inv'[p].calls # <<>> =>
                          /\ inv'[p].calls[1].to = identity.address
                          /\ RoundedDown(inv'[p].calls[1].amount, balance)
        /\ \A p, q \in Callers :
               (/\ inv'[p].op = "recallCredits" /\ inv'[q].op = "recallCredits"
                /\ inv'[p].balanceRead # <<>>
                /\ inv'[p].balanceRead = inv'[q].balanceRead) =>
                   /\ Len(inv'[p].calls) = Len(inv'[q].calls)
                   /\ inv'[p].calls # <<>> =>
                          /\ inv'[p].calls[1].to = inv'[q].calls[1].to
                          /\ inv'[p].calls[1].amount = inv'[q].calls[1].amount ]_vars

\* Recalls for two different child addresses read the balance 250.7 and
\* both requested 250 for the orchestrator's address.
C15_Witness ==
    \E p, q \in Callers :
        /\ inv[p].op = "recallCredits" /\ inv[p].childAddress = "0xA"
        /\ inv[q].op = "recallCredits" /\ inv[q].childAddress = "0xB"
        /\ inv[p].balanceRead = <<2507>> /\ inv[q].balanceRead = <<2507>>
        /\ inv[p].calls[1].amount = 2500 /\ inv[q].calls[1].amount = 2500
        /\ inv[p].calls[1].to = identity.address
        /\ inv[q].calls[1].to = identity.address

\* The agent record c is idle in the store as it is now.
IdleNow(c) ==
    /\ c.status \in {"running", "healthy"}
    /\ ~(c.address # "" /\ IsTarget(c.address, task_graph))

\* C16: getIdle and getBestForTask are read-only and uncached: they leave
\* every agent record and every task-assignment record unchanged, and the
\* result of each call is the one the store gives at the time of that call,
\* so a change of the task assignments or of the agent statuses made before
\* the call is visible in its result.
C16_ReadOnlyUncached ==
    [][ (call'.op \in {"getIdle", "getBestForTask"}) =>
            /\ children' = children
            /\ task_graph' = task_graph
            /\ call'.op = "getIdle" =>
                   /\ FromStore(call'.value)
                   /\ \A i \in 1..Len(children) :
                          Appears(children[i], call'.value) <=> IdleNow(children[i])
            /\ call'.op = "getBestForTask" =>
                   /\ (call'.value = <<>>)
                          <=> ~\E i \in 1..Len(children) : IdleNow(children[i])
                   /\ call'.value # <<>> =>
                          \E i \in 1..Len(children) :
                              /\ IdleNow(children[i])
                              /\ children[i].address = call'.value[1].address ]_vars

\* getIdle returned the second agent only: the first one, registered before
\* it, has since become the target of a running task.
C16_Witness ==
    /\ call.op = "getIdle"
    /\ Len(children) = 2
    /\ children[1].status = "running"
    /\ [assigned_to |-> <<children[1].address>>, status |-> "running"] \in task_graph
    /\ Len(call.value) = 1
    /\ call.value[1].address = children[2].address

\* C17: whenever recallCredits returns success = false, the amountCents it
\* returns is 0, for a transfer that returns a failure status without
\* raising as well as for a transfer that raises.
C17_FailedRecallZero ==
    \A p \in Callers :
        (inv[p].op = "recallCredits" /\ Finished(p) /\ inv[p].ret # <<>>
                                     /\ ~inv[p].ret[1].success) =>
            inv[p].ret[1].amountCents = <<0>>

\* C18: no operation of this core changes an agent's funded-amount
\* accumulator after registration: after any sequence of register,
\* updateStatus, fundChild and recallCredits calls every agent record has
\* fundedAmountCents = 0, and no step of fundChild or recallCredits writes
\* to the store.
C18_FundedAmountStaysZero ==
    [][ /\ \A i \in 1..Len(children') : children'[i].fundedAmountCents = 0
        /\ inv' # inv => (children' = children /\ task_graph' = task_graph) ]_vars

\* fundChild(addr, 1500) succeeded for a registered agent whose status was
\* set afterwards, and the record still shows no funded amount.
C18_Witness ==
    /\ inv["c1"].op = "fundChild" /\ Finished("c1") /\ inv["c1"].resp # <<>>
    /\ inv["c1"].ret[1].success
    /\ \E i \in 1..Len(children) :
           /\ children[i].address = inv["c1"].childAddress
           /\ children[i].status = "healthy"
           /\ children[i].fundedAmountCents = 0

\* C19: agent lifecycle.  Immediately after a successful register(a) the
\* address of a is returned by getIdle unless it is the target of an
\* assigned or running task; an agent whose status is outside {running,
\* healthy} is absent from every getIdle result, and its status only comes
\* back into {running, healthy} through an updateStatus call for its address
\* with such a status.
C19_Lifecycle ==
    [][ /\ (call'.op = "register" /\ ~call'.raised) =>
               LET a == call'.arg[1].address
                   idle == getIdle(children', task_graph')
               IN  ~IsTarget(a, task_graph') =>
                       \E k \in 1..Len(idle) : idle[k].address = a
        /\ call'.op = "getIdle" =>
               \A i \in 1..Len(children') :
                   children'[i].status \notin {"running", "healthy"} =>
                       ~Appears(children'[i], call'.value)
        /\ \A i \in 1..Len(children) :
               (/\ children[i].status \notin {"running", "healthy"}
                /\ children'[i].status \in {"running", "healthy"}) =>
                   /\ call'.op = "updateStatus"
                   /\ call'.arg = <<children[i].address, children'[i].status>> ]_vars

\* getIdle left out an agent that was set to dead and returned an agent
\* that was registered after it.
C19_Witness ==
    /\ call.op = "getIdle"
    /\ Len(children) = 2
    /\ children[1].status = "dead"
    /\ children[2].status = "running"
    /\ call.value = << [address |-> children[2].address, name |-> children[2].name,
                        role |-> "generalist", status |-> "running"] >>

====
